---- MODULE Spec2Model ----
(***************************************************************************)
(* Model of acoustics/standards/iec_61672_1_2013.py: the block averager,   *)
(* the exponential integrator, the level converters and the frequency      *)
(* weighting tables.                                                        *)
(*                                                                         *)
(* Real numbers are exact rationals <<num, den>> (den > 0, lowest terms);  *)
(* <<0, 0>> is the non-finite value (nan/inf).  An ndarray is a record     *)
(* [shape, flat]: its shape and its elements in C (row-major) order, which *)
(* is what numpy's reshape works on.  Sequences are 1-based here, so the   *)
(* code's index i is position i + 1.                                       *)
(***************************************************************************)
EXTENDS Integers, Sequences, FiniteSets, TLC

\* Largest signal length (trailing axis) drawn as an input.
MaxLen == 3

----------------------------------------------------------------------------
\* Exact rational arithmetic (the float arithmetic of numpy, without rounding)

\* Bind(e, F) is F(e), with e evaluated once and named inside F.
Bind(e, F(_)) == CHOOSE r \in {F(v) : v \in {e}} : TRUE

Abs(x) == IF x < 0 THEN -x ELSE x

RECURSIVE GCD(_, _)
GCD(a, b) == IF b = 0 THEN a ELSE GCD(b, a % b)

NaN == <<0, 0>>

IsNaN(q) == q[2] = 0

Rat(num, den) ==
    IF den = 0 THEN NaN
    ELSE LET g == GCD(Abs(num), Abs(den))
             s == IF den < 0 THEN -1 ELSE 1
         IN  <<(s * num) \div g, (s * den) \div g>>

Zero == <<0, 1>>
One == <<1, 1>>

RAdd(p, q) == IF IsNaN(p) \/ IsNaN(q) THEN NaN
              ELSE Rat(p[1] * q[2] + q[1] * p[2], p[2] * q[2])
RNeg(p) == IF IsNaN(p) THEN NaN ELSE <<-p[1], p[2]>>
RSub(p, q) == RAdd(p, RNeg(q))
RMul(p, q) == IF IsNaN(p) \/ IsNaN(q) THEN NaN
              ELSE Rat(p[1] * q[1], p[2] * q[2])
RDiv(p, q) == IF IsNaN(p) \/ IsNaN(q) THEN NaN
              ELSE Rat(p[1] * q[2], p[2] * q[1])
RLess(p, q) == ~IsNaN(p) /\ ~IsNaN(q) /\ p[1] * q[2] < q[1] * p[2]

\* np.floor(x).astype(int) of a finite x
Floor(q) == q[1] \div q[2]

\* Sum of f[lo..hi]
RECURSIVE RSum(_, _, _)
RSum(f, lo, hi) == IF hi < lo THEN Zero ELSE RAdd(RSum(f, lo, hi - 1), f[hi])

----------------------------------------------------------------------------
\* Polynomials: coefficient sequences, highest power first (numpy's order)

\* Sum over i in lo..hi of p[i] * q[k + 1 - i]
RECURSIVE Convolve(_, _, _, _, _)
Convolve(p, q, k, lo, hi) ==
    IF hi < lo THEN Zero
    ELSE RAdd(Convolve(p, q, k, lo, hi - 1), RMul(p[hi], q[k + 1 - hi]))

PolyMul(p, q) ==
    Bind(<<p, q>>, LAMBDA pq :
        [k \in 1..(Len(pq[1]) + Len(pq[2]) - 1) |->
            Convolve(pq[1], pq[2], k,
                     IF k - Len(pq[2]) + 1 > 1 THEN k - Len(pq[2]) + 1 ELSE 1,
                     IF k < Len(pq[1]) THEN k ELSE Len(pq[1]))])

PolyScale(c, p) ==
    Bind(<<c, p>>, LAMBDA cp : [k \in 1..Len(cp[2]) |-> RMul(cp[1], cp[2][k])])

\* Sum of two polynomials of the same length
PolyAdd(p, q) ==
    Bind(<<p, q>>, LAMBDA pq : [k \in 1..Len(pq[1]) |-> RAdd(pq[1][k], pq[2][k])])

RECURSIVE PolyPow(_, _)
PolyPow(p, e) == IF e = 0 THEN <<One>> ELSE PolyMul(PolyPow(p, e - 1), p)

RECURSIVE RPow(_, _)
RPow(q, e) == IF e = 0 THEN One ELSE RMul(RPow(q, e - 1), q)

\* np.poly: the monic polynomial with the given roots
RECURSIVE Poly(_)
Poly(roots) ==
    IF Len(roots) = 0 THEN <<One>>
    ELSE PolyMul(Poly(SubSeq(roots, 1, Len(roots) - 1)),
                 <<One, RNeg(roots[Len(roots)])>>)

----------------------------------------------------------------------------
\* ndarrays

Last(s) == s[Len(s)]
Leading(s) == SubSeq(s, 1, Len(s) - 1)

RECURSIVE Prod(_)
Prod(s) == IF Len(s) = 0 THEN 1 ELSE Prod(Leading(s)) * Last(s)

Array(shape, flat) == [shape |-> shape, flat |-> flat]
EmptyArray == Array(<<0>>, <<>>)

\* Outcome of a call: a returned value, or a raised exception.
Ok(v) == [status |-> "ok", error |-> "", value |-> v]
Raised(e) == [status |-> "raised", error |-> e, value |-> EmptyArray]


\* A slice that keeps the whole trailing axis (the tail is not dropped).
SliceLast_keep_tail(arr, stop) == arr

\* data[..., 0:stop]: the first `stop` samples along the trailing axis
\* (a slice's stop is clipped to the axis length).
SliceLast(arr, stop) ==
    Bind(<<arr, stop>>, LAMBDA as :
        LET flat == as[1].flat
            L == Last(as[1].shape)
            m == IF as[2] > L THEN L ELSE IF as[2] < 0 THEN 0 ELSE as[2]
            outer == Prod(Leading(as[1].shape))
        IN  Array(Leading(as[1].shape) \o <<m>>,
                  [k \in 1..(outer * m) |->
                      flat[((k - 1) \div m) * L + ((k - 1) % m) + 1]]))

Known(newshape) ==
    Prod([k \in 1..Len(newshape) |-> IF newshape[k] = -1 THEN 1 ELSE newshape[k]])

\* A reshape that infers 0 for the unknown dimension of an empty array.
Reshape_infer_zero(arr, newshape) ==
    LET size == Len(arr.flat)
        known == Known(newshape)
    IN  IF known = 0
        THEN IF size = 0
             THEN Ok(Array([k \in 1..Len(newshape) |->
                              IF newshape[k] = -1 THEN 0 ELSE newshape[k]], <<>>))
             ELSE Raised("ValueError")
        ELSE IF size % known # 0 THEN Raised("ValueError")
        ELSE Ok(Array([k \in 1..Len(newshape) |->
                         IF newshape[k] = -1 THEN size \div known ELSE newshape[k]],
                      arr.flat))

\* ndarray.reshape with one unknown (-1) dimension: the elements keep their
\* C order; the unknown dimension is size / (product of the others), and a
\* ValueError is raised when that product is zero or does not divide size.
Reshape(arr, newshape) ==
    LET size == Len(arr.flat)
        known == Known(newshape)
    IN  IF known = 0 THEN Raised("ValueError")
        ELSE IF size % known # 0 THEN Raised("ValueError")
        ELSE Ok(Array([k \in 1..Len(newshape) |->
                         IF newshape[k] = -1 THEN size \div known ELSE newshape[k]],
                      arr.flat))

\* A mean that forgets to divide by the number of samples.
MeanLast_sum(arr) ==
    Bind(arr, LAMBDA x :
        LET n == Last(x.shape)
            outer == Prod(Leading(x.shape))
        IN  Array(Leading(x.shape),
                  [k \in 1..outer |-> RSum(x.flat, (k - 1) * n + 1, k * n)]))

\* ndarray.mean(axis=-1)
MeanLast(arr) ==
    Bind(arr, LAMBDA x :
        LET n == Last(x.shape)
            outer == Prod(Leading(x.shape))
        IN  Array(Leading(x.shape),
                  [k \in 1..outer |->
                      RDiv(RSum(x.flat, (k - 1) * n + 1, k * n), Rat(n, 1))]))

\* arr[..., idx]
IndexLast(arr, idx) ==
    Bind(arr, LAMBDA x :
        LET n == Last(x.shape)
            i == IF idx < 0 THEN idx + n ELSE idx
            outer == Prod(Leading(x.shape))
        IN  IF i < 0 \/ i >= n THEN Raised("IndexError")
            ELSE Ok(Array(Leading(x.shape),
                          [k \in 1..outer |-> x.flat[(k - 1) * n + i + 1]])))

\* arr / scalar, arr ** 2.0
DivScalar(arr, q) ==
    Bind(arr, LAMBDA x : Array(x.shape, [k \in 1..Len(x.flat) |-> RDiv(x.flat[k], q)]))
Power2(arr) ==
    Bind(arr, LAMBDA x :
        Array(x.shape, [k \in 1..Len(x.flat) |-> RMul(x.flat[k], x.flat[k])]))

\* python int // numpy int: a zero divisor gives 0 (with a RuntimeWarning)
FloorDivide(a, b) == IF b = 0 THEN 0 ELSE a \div b

----------------------------------------------------------------------------
\* scipy.signal

\* zpk2tf(z, p, k): b = k * poly(z), a = poly(p)
zpk2tf(z, p, k) == [b |-> PolyScale(k, Poly(z)), a |-> Poly(p)]

\* normalize(b, a): both divided by the leading denominator coefficient
normalize(b, a) ==
    Bind(<<b, a>>, LAMBDA ba :
        [b |-> PolyScale(RDiv(One, ba[2][1]), ba[1]),
         a |-> PolyScale(RDiv(One, ba[2][1]), ba[2])])

\* The substitution s = 2 fs (z - 1)/(z + 1) in a polynomial c of degree
\* Len(c) - 1, multiplied through by (z + 1)^M.
RECURSIVE BilinearPoly(_, _, _, _)
BilinearPoly(c, K, M, i) ==
    LET N == Len(c) - 1
        term == PolyScale(RMul(c[N - i + 1], RPow(K, i)),
                          PolyMul(PolyPow(<<One, RNeg(One)>>, i),
                                  PolyPow(<<One, One>>, M - i)))
    IN  IF i = 0 THEN term ELSE PolyAdd(BilinearPoly(c, K, M, i - 1), term)

\* bilinear(b, a, fs)
bilinear(b, a, fs) ==
    LET D == Len(a) - 1
        N == Len(b) - 1
        M == IF N > D THEN N ELSE D
        K == RMul(Rat(2, 1), fs)
    IN  normalize(BilinearPoly(b, K, M, N), BilinearPoly(a, K, M, D))

\* The first k outputs of the direct-form filter on one row x, started from
\* zero state: a[0] y[m] = sum_j b[j] x[m-j] - sum_{j>=1} a[j] y[m-j].
RECURSIVE LFilterRow(_, _, _, _)
LFilterRow(b, a, x, k) ==
    IF k = 0 THEN <<>>
    ELSE Bind(LFilterRow(b, a, x, k - 1), LAMBDA y :
            Bind(<<[j \in 1..Len(b) |->
                      IF k - (j - 1) >= 1 THEN RMul(b[j], x[k - (j - 1)]) ELSE Zero],
                   [j \in 1..Len(a) |->
                      IF j >= 2 /\ k - (j - 1) >= 1
                      THEN RMul(a[j], y[k - (j - 1)]) ELSE Zero]>>,
                 LAMBDA terms :
                    Append(y, RDiv(RSub(RSum(terms[1], 1, Len(b)),
                                        RSum(terms[2], 1, Len(a))), a[1]))))

\* The filter run over the rows of length rowlen of the flat data
LFilterFlat(b, a, flat, rowlen) ==
    Bind(<<b, a, flat>>, LAMBDA baf :
        Bind([r \in 0..((IF rowlen = 0 THEN 0 ELSE Len(baf[3]) \div rowlen) - 1) |->
                LFilterRow(baf[1], baf[2],
                           [j \in 1..rowlen |-> baf[3][r * rowlen + j]], rowlen)],
             LAMBDA rows :
                [k \in 1..Len(baf[3]) |->
                    rows[(k - 1) \div rowlen][((k - 1) % rowlen) + 1]]))

\* A filter whose state carries over from one block to the next: the blocks
\* of a signal are filtered as one continuous row.
lfilter_carry(b, a, arr) ==
    Array(arr.shape,
          LFilterFlat(b, a, arr.flat,
                      Last(arr.shape) * Last(Leading(arr.shape))))

\* lfilter(b, a, x): along the trailing axis, every row from zero state (an
\* array without rows gives an array without rows)
lfilter(b, a, arr) ==
    Array(arr.shape, LFilterFlat(b, a, arr.flat, Last(arr.shape)))

----------------------------------------------------------------------------
\* Module constants.  The tables hold tenths (10.0 Hz is 100, -70.4 dB is
\* -704), so that every entry is an integer.

NOMINAL_FREQUENCIES ==
    <<100, 125, 160, 200, 250, 315, 400, 500, 630, 800,
      1000, 1250, 1600, 2000, 2500, 3150, 4000, 5000, 6300,
      8000, 10000, 12500, 16000, 20000, 25000, 31500, 40000, 50000,
      63000, 80000, 100000, 125000, 160000, 200000>>

WEIGHTING_A ==
    <<-704, -634, -567, -505, -447, -394, -346, -302, -262,
      -225, -191, -161, -134, -109, -86, -66, -48, -32, -19,
      -8, 0, 6, 10, 12, 13, 12, 10, 5, -1, -11, -25, -43, -66, -93>>

\* The table with its last entry lost.
WEIGHTING_C_short ==
    <<-143, -112, -85, -62, -44, -30, -20, -13, -8, -5, -3,
      -2, -1, 0, 0, 0, 0, 0, 0, 0, 0, 0,
      -1, -2, -3, -5, -8, -13, -20, -30, -44, -62, -85>>

WEIGHTING_C ==
    <<-143, -112, -85, -62, -44, -30, -20, -13, -8, -5, -3,
      -2, -1, 0, 0, 0, 0, 0, 0, 0, 0, 0,
      -1, -2, -3, -5, -8, -13, -20, -30, -44, -62, -85, -112>>

WEIGHTING_Z ==
    <<0, 0, 0, 0, 0, 0, 0, 0, 0, 0, 0, 0, 0,
      0, 0, 0, 0, 0, 0, 0, 0, 0, 0, 0, 0, 0,
      0, 0, 0, 0, 0, 0, 0, 0>>

FAST == Rat(125, 1000)
SLOW == Rat(1000, 1000)

\* iso_tr_25417_2007.REFERENCE_PRESSURE: 2e-5 Pa
REFERENCE_PRESSURE == Rat(2, 100000)

----------------------------------------------------------------------------
\* The functions of the module

\* The averager as its commented-out line has it: reshape((-1, n)), which
\* flattens the leading dimensions into the block axis.
average_flat(data, sample_frequency, averaging_time) ==
    LET samples == Last(data.shape)
        n == Floor(RMul(averaging_time, sample_frequency))
    IN  Bind(SliceLast(data, n * FloorDivide(samples, n)), LAMBDA sliced :
        Bind(Reshape(sliced, <<-1, n>>), LAMBDA reshaped :
            IF reshaped.status # "ok" THEN reshaped
            ELSE Ok(MeanLast(reshaped.value))))

average(data, sample_frequency, averaging_time) ==
    LET samples == Last(data.shape)
        n == Floor(RMul(averaging_time, sample_frequency))
    IN  Bind(SliceLast(data, n * FloorDivide(samples, n)), LAMBDA sliced :
        Bind(Reshape(sliced, Leading(sliced.shape) \o <<-1, n>>), LAMBDA reshaped :
            IF reshaped.status # "ok" THEN reshaped
            ELSE Ok(MeanLast(reshaped.value))))

\* The continuous-time prototype: b, a = zpk2tf([1.0], [1.0, integration_time], [1.0])
prototype(integration_time) == zpk2tf(<<One>>, <<One, integration_time>>, One)

\* b, a = bilinear(b, a, fs=sample_frequency)
digital_filter(sample_frequency, integration_time) ==
    Bind(prototype(integration_time), LAMBDA analog :
        bilinear(analog.b, analog.a, sample_frequency))

integrate(data, sample_frequency, integration_time) ==
    LET samples == Last(data.shape)
        n == Floor(RMul(integration_time, sample_frequency))
    IN  Bind(digital_filter(sample_frequency, integration_time), LAMBDA digital :
        Bind(SliceLast(data, n * FloorDivide(samples, n)), LAMBDA sliced :
        Bind(Reshape(sliced, Leading(sliced.shape) \o <<-1, n>>), LAMBDA reshaped :
            IF reshaped.status # "ok" THEN reshaped
            ELSE Bind(IndexLast(lfilter(digital.b, digital.a, reshaped.value), n - 1),
                      LAMBDA last :
                        IF last.status # "ok" THEN last
                        ELSE Ok(DivScalar(last.value, integration_time))))))

\* 10.0 * np.log10(energy / reference_pressure**2.0) of one value.  log10
\* raises nothing: a negative argument gives nan, zero gives -inf (each with
\* a RuntimeWarning).  A positive argument's level is kept as the pair it is
\* the logarithm of.
Level(energy, reference_pressure) ==
    IF IsNaN(energy) \/ RLess(energy, Zero)
    THEN [kind |-> "nan", energy |-> NaN, reference |-> reference_pressure]
    ELSE IF energy = Zero
    THEN [kind |-> "-inf", energy |-> Zero, reference |-> reference_pressure]
    ELSE [kind |-> "dB", energy |-> energy, reference |-> reference_pressure]

Levels(energies, reference_pressure) ==
    Bind(energies, LAMBDA e :
        Array(e.shape, [k \in 1..Len(e.flat) |-> Level(e.flat[k], reference_pressure)]))

\* A time axis that starts at T instead of 0.
TimeAxis_from_one(levels, T) ==
    [k \in 1..Last(levels.shape) |-> RMul(Rat(k, 1), T)]

\* np.arange(levels.shape[-1]) * T
TimeAxis(levels, T) ==
    [k \in 1..Last(levels.shape) |-> RMul(Rat(k - 1, 1), T)]

time_averaged_sound_level(pressure, sample_frequency, averaging_time, reference_pressure) ==
    Bind(average(Power2(pressure), sample_frequency, averaging_time), LAMBDA energies :
        IF energies.status # "ok" THEN energies
        ELSE Bind(Levels(energies.value, reference_pressure), LAMBDA levels :
                Ok([times |-> TimeAxis(levels, averaging_time), levels |-> levels])))

time_weighted_sound_level(pressure, sample_frequency, integration_time, reference_pressure) ==
    Bind(integrate(Power2(pressure), sample_frequency, integration_time), LAMBDA energies :
        IF energies.status # "ok" THEN energies
        ELSE Bind(Levels(energies.value, reference_pressure), LAMBDA levels :
                Ok([times |-> TimeAxis(levels, integration_time), levels |-> levels])))

fast(data, fs) == integrate(data, fs, FAST)
slow(data, fs) == integrate(data, fs, SLOW)
fast_level(data, fs) == time_weighted_sound_level(data, fs, FAST, REFERENCE_PRESSURE)
slow_level(data, fs) == time_weighted_sound_level(data, fs, SLOW, REFERENCE_PRESSURE)

----------------------------------------------------------------------------
\* Inputs

\* Sample values of a signal
Sample == {Zero, Rat(2, 1)}

\* Leading (batch) dimensions of a signal: none, or a batch of two
LeadingShapes == {<<>>, <<2>>}

Shapes == {lead \o <<L>> : lead \in LeadingShapes, L \in 0..MaxLen}

ArraysOf(shape) == {Array(shape, flat) : flat \in [1..Prod(shape) -> Sample]}

\* Sample rates and times: T*fs < 1 (no block), blocks of 1, 2 and 3 samples,
\* blocks longer than the signal, and T > 2 fs.  2 fs is never 1 or T, so the
\* leading denominator coefficient that bilinear divides by is not zero.
SampleFrequencies == {Rat(1, 1), Rat(2, 1), Rat(8, 1)}

Times == {FAST, SLOW, Rat(3, 2), Rat(3, 1)}

ReferencePressures == {REFERENCE_PRESSURE, One}

----------------------------------------------------------------------------
\* State: the arguments of a call, which function was called and what it
\* gave back, and the module's global tables.

VARIABLES data, sample_frequency, time, reference_pressure, called, result, tables

vars == <<data, sample_frequency, time, reference_pressure, called, result, tables>>

NoResult == [status |-> "none", error |-> "", value |-> EmptyArray]

Init ==
    /\ \E shape \in Shapes : data \in ArraysOf(shape)
    /\ sample_frequency \in SampleFrequencies
    /\ time \in Times
    /\ reference_pressure = REFERENCE_PRESSURE
    /\ called = "none"
    /\ result = NoResult
    /\ tables = [NOMINAL_FREQUENCIES |-> NOMINAL_FREQUENCIES,
                 WEIGHTING_A |-> WEIGHTING_A,
                 WEIGHTING_C |-> WEIGHTING_C,
                 WEIGHTING_Z |-> WEIGHTING_Z]

Call_average ==
    /\ called = "none"
    /\ called' = "average"
    /\ result' = average(data, sample_frequency, time)
    /\ UNCHANGED <<data, sample_frequency, time, reference_pressure, tables>>

Call_integrate ==
    /\ called = "none"
    /\ called' = "integrate"
    /\ result' = integrate(data, sample_frequency, time)
    /\ UNCHANGED <<data, sample_frequency, time, reference_pressure, tables>>

Call_time_averaged_sound_level ==
    /\ called = "none"
    /\ \E ref \in ReferencePressures :
          /\ reference_pressure' = ref
          /\ result' = time_averaged_sound_level(data, sample_frequency, time, ref)
    /\ called' = "time_averaged_sound_level"
    /\ UNCHANGED <<data, sample_frequency, time, tables>>

Call_time_weighted_sound_level ==
    /\ called = "none"
    /\ \E ref \in ReferencePressures :
          /\ reference_pressure' = ref
          /\ result' = time_weighted_sound_level(data, sample_frequency, time, ref)
    /\ called' = "time_weighted_sound_level"
    /\ UNCHANGED <<data, sample_frequency, time, tables>>

Call_fast ==
    /\ called = "none"
    /\ called' = "fast"
    /\ time' = FAST
    /\ result' = fast(data, sample_frequency)
    /\ UNCHANGED <<data, sample_frequency, reference_pressure, tables>>

Call_slow ==
    /\ called = "none"
    /\ called' = "slow"
    /\ time' = SLOW
    /\ result' = slow(data, sample_frequency)
    /\ UNCHANGED <<data, sample_frequency, reference_pressure, tables>>

Call_fast_level ==
    /\ called = "none"
    /\ called' = "fast_level"
    /\ time' = FAST
    /\ result' = fast_level(data, sample_frequency)
    /\ UNCHANGED <<data, sample_frequency, reference_pressure, tables>>

Call_slow_level ==
    /\ called = "none"
    /\ called' = "slow_level"
    /\ time' = SLOW
    /\ result' = slow_level(data, sample_frequency)
    /\ UNCHANGED <<data, sample_frequency, reference_pressure, tables>>

Next ==
    \/ Call_average
    \/ Call_integrate
    \/ Call_time_averaged_sound_level
    \/ Call_time_weighted_sound_level
    \/ Call_fast
    \/ Call_slow
    \/ Call_fast_level
    \/ Call_slow_level

Spec == Init /\ [][Next]_vars

----------------------------------------------------------------------------
\* Vocabulary of the properties

EnergyCalls == {"average", "integrate", "fast", "slow"}
IntegrateCalls == {"integrate", "fast", "slow"}
LevelCalls == {"time_averaged_sound_level", "time_weighted_sound_level",
               "fast_level", "slow_level"}
WeightedLevelCalls == {"time_weighted_sound_level", "fast_level", "slow_level"}

\* n = floor(T * fs), L, and the number of batch entries of the call made
BlockLength == Floor(RMul(time, sample_frequency))
Samples == Last(data.shape)
Entries == Prod(Leading(data.shape))
Blocks == Samples \div BlockLength

\* The function that was called, applied to another signal with the same
\* sample rate and time
Again(signal) ==
    IF called = "average" THEN average(signal, sample_frequency, time)
    ELSE integrate(signal, sample_frequency, time)

\* The signal with the sample at flat position k replaced by v
Replace(signal, k, v) == Array(signal.shape, [signal.flat EXCEPT ![k] = v])

\* Batch entry r of a batched array, as a signal of its own
Entry(arr, r) ==
    Array(<<Last(arr.shape)>>,
          [j \in 1..Last(arr.shape) |-> arr.flat[(r - 1) * Last(arr.shape) + j]])

\* The n samples of block i (from 0) of batch entry r (from 0) of data
Block(r, i) ==
    [j \in 1..BlockLength |-> data.flat[r * Samples + i * BlockLength + j]]

----------------------------------------------------------------------------
\* C1: for average and integrate with n = floor(T*fs) >= 1, the output has
\* exactly floor(L/n) values along the trailing axis, and the last L mod n
\* samples are discarded: replacing any of them by another value gives the
\* same output.
C1_OutputLengthAndTail ==
    (called \in EnergyCalls /\ BlockLength >= 1) =>
        /\ result.status = "ok"
        /\ Last(result.value.shape) = Samples \div BlockLength
        /\ \A k \in 1..Len(data.flat) :
              ((k - 1) % Samples) >= BlockLength * Blocks =>
                  \A v \in Sample : Again(Replace(data, k, v)) = result

\* A signal of three samples cut into one block of two; the dropped sample is
\* not zero.
C1_Witness ==
    /\ called = "integrate"
    /\ BlockLength = 2
    /\ data.shape = <<3>>
    /\ data.flat[3] # Zero
    /\ result.status = "ok"
    /\ result.value.shape = <<1>>

\* C2: when the averaging/integration time is longer than the signal
\* (n > L, no full block), every function reports a failure; none returns
\* an empty result.
C2_TooLongFails ==
    (called # "none" /\ BlockLength > Samples) => result.status = "raised"

\* C3: when n = floor(T*fs) is zero, average and integrate fail (the
\* reshape raises ValueError) for every signal, the empty one included.
C3_ZeroBlockLengthFails ==
    (called \in EnergyCalls /\ BlockLength = 0) =>
        /\ result.status = "raised"
        /\ result.error = "ValueError"

\* integrate of an empty signal with T*fs < 1 has raised.
C3_Witness ==
    /\ called = "integrate"
    /\ BlockLength = 0
    /\ Samples = 0
    /\ result.status = "raised"

\* C4: a successful level call returns a time axis as long as the level
\* sequence, with times[i] = i * T; T is FAST for fast_level and SLOW for
\* slow_level.
C4_TimeAxis ==
    (called \in LevelCalls /\ result.status = "ok") =>
        LET T == IF called = "fast_level" THEN Rat(1, 8)
                 ELSE IF called = "slow_level" THEN Rat(1, 1)
                 ELSE time
        IN  /\ Len(result.value.times) = Last(result.value.levels.shape)
            /\ \A i \in 0..(Len(result.value.times) - 1) :
                  result.value.times[i + 1] = Rat(i * T[1], T[2])

\* fast_level has returned three levels or more.
C4_Witness ==
    /\ called = "fast_level"
    /\ result.status = "ok"
    /\ Len(result.value.times) >= 3
    /\ result.value.times[3] = Rat(1, 4)

\* C5: output i of average is the arithmetic mean of the n samples at
\* positions i*n .. (i+1)*n - 1 (n times the output is their sum); a block of
\* constant value c gives c.
C5_BlockMean ==
    (called = "average" /\ BlockLength >= 1 /\ result.status = "ok") =>
        /\ Len(result.value.flat) = Entries * Blocks
        /\ \A r \in 0..(Entries - 1) : \A i \in 0..(Blocks - 1) :
              /\ RMul(result.value.flat[r * Blocks + i + 1], Rat(BlockLength, 1))
                    = RSum(Block(r, i), 1, BlockLength)
              /\ \A c \in Sample :
                    (\A j \in 1..BlockLength : Block(r, i)[j] = c)
                        => result.value.flat[r * Blocks + i + 1] = c

\* Two batch entries of one block of two samples each: a mixed block with
\* mean 1 and a constant one.
C5_Witness ==
    /\ called = "average"
    /\ BlockLength = 2
    /\ data = Array(<<2, 3>>, <<Zero, Rat(2, 1), Rat(2, 1), Rat(2, 1), Rat(2, 1), Zero>>)
    /\ result = Ok(Array(<<2, 1>>, <<Rat(1, 1), Rat(2, 1)>>))

\* C6: the continuous-time prototype of integrate has exactly one pole, at
\* -1/tau, no zeros, and a DC gain that, divided by tau, is 1.
C6_OnePolePrototype ==
    (called \in IntegrateCalls \cup WeightedLevelCalls) =>
        \E p \in {prototype(time)} :
            /\ Len(p.a) = 2
            /\ Len(p.b) = 1
            /\ RAdd(RMul(p.a[1], RDiv(RNeg(One), time)), p.a[2]) = Zero
            /\ RDiv(RDiv(p.b[Len(p.b)], p.a[Len(p.a)]), time) = One

\* The block energies a level call takes the logarithm of
Energies ==
    IF called = "time_averaged_sound_level"
    THEN average(Power2(data), sample_frequency, time)
    ELSE integrate(Power2(data), sample_frequency, time)

\* C7: in the level functions a block of negative energy makes the call
\* fail; a block of zero energy gives the level -inf and the call succeeds.
C7_NegativeEnergyRaises ==
    called \in LevelCalls =>
        \E e \in {Energies} :
            e.status = "ok" =>
                IF \E k \in 1..Len(e.value.flat) : RLess(e.value.flat[k], Zero)
                THEN result.status = "raised"
                ELSE /\ result.status = "ok"
                     /\ \A k \in 1..Len(e.value.flat) :
                           e.value.flat[k] = Zero
                              => result.value.levels.flat[k].kind = "-inf"

\* The output position of the block that holds flat sample k (0 when the
\* sample is in the discarded tail)
BlockOf(k) ==
    IF ((k - 1) % Samples) >= BlockLength * Blocks THEN 0
    ELSE ((k - 1) \div Samples) * Blocks + (((k - 1) % Samples) \div BlockLength) + 1

\* C8: in integrate, output i is the output at the last sample of the filter
\* run from zero state over the n samples of block i alone, divided by tau;
\* replacing a sample inside block j leaves every other output as it was.
C8_BlocksIndependent ==
    (called \in IntegrateCalls /\ BlockLength >= 1 /\ result.status = "ok") =>
        /\ Len(result.value.flat) = Entries * Blocks
        /\ \E f \in {digital_filter(sample_frequency, time)} :
              \A r \in 0..(Entries - 1) : \A i \in 0..(Blocks - 1) :
                  result.value.flat[r * Blocks + i + 1]
                     = RDiv(LFilterRow(f.b, f.a, Block(r, i), BlockLength)[BlockLength],
                            time)
        /\ \A k \in 1..Len(data.flat) : \A v \in Sample \ {data.flat[k]} :
              \E other \in {Again(Replace(data, k, v))} :
                  /\ other.status = "ok"
                  /\ \A m \in 1..Len(result.value.flat) :
                        m # BlockOf(k) => other.value.flat[m] = result.value.flat[m]

\* Three blocks: two that are not silent, then a silent one whose output
\* is zero.
C8_Witness ==
    /\ called = "integrate"
    /\ BlockLength = 1
    /\ data = Array(<<3>>, <<Rat(2, 1), Rat(2, 1), Zero>>)
    /\ result.status = "ok"
    /\ result.value.shape = <<3>>
    /\ result.value.flat[2] # Zero
    /\ result.value.flat[3] = Zero

\* C9: for a batched signal, average and integrate keep the leading
\* dimensions, and the output of each batch entry is the output of the same
\* function on that entry alone.
C9_BatchEntriesIndependent ==
    (called \in EnergyCalls /\ Len(data.shape) = 2) =>
        \A r \in 1..data.shape[1] :
            \E alone \in {Again(Entry(data, r))} :
                /\ alone.status = result.status
                /\ result.status = "ok" =>
                      /\ Leading(result.value.shape) = Leading(data.shape)
                      /\ alone.value = Entry(result.value, r)

\* A batch of two different signals whose outputs differ.
C9_Witness ==
    /\ called = "integrate"
    /\ data.shape = <<2, 3>>
    /\ BlockLength = 3
    /\ result.status = "ok"
    /\ result.value.shape = <<2, 1>>
    /\ result.value.flat[1] # result.value.flat[2]

\* C10: the four tables have 34 entries each, WEIGHTING_Z is all zeros, the
\* A and C weightings are 0.0 at 1000 Hz, and no call changes a table.
C10_Tables ==
    /\ Len(tables.NOMINAL_FREQUENCIES) = 34
    /\ Len(tables.WEIGHTING_A) = 34
    /\ Len(tables.WEIGHTING_C) = 34
    /\ Len(tables.WEIGHTING_Z) = 34
    /\ \A i \in 1..Len(tables.WEIGHTING_Z) : tables.WEIGHTING_Z[i] = 0
    /\ \E i \in 1..Len(tables.NOMINAL_FREQUENCIES) : tables.NOMINAL_FREQUENCIES[i] = 10000
    /\ \A i \in 1..Len(tables.NOMINAL_FREQUENCIES) :
          tables.NOMINAL_FREQUENCIES[i] = 10000
             => tables.WEIGHTING_A[i] = 0 /\ tables.WEIGHTING_C[i] = 0
    /\ tables.NOMINAL_FREQUENCIES = NOMINAL_FREQUENCIES
    /\ tables.WEIGHTING_A = WEIGHTING_A
    /\ tables.WEIGHTING_C = WEIGHTING_C
    /\ tables.WEIGHTING_Z = WEIGHTING_Z

\* A level call has returned and 1000 Hz still carries 0.0 in A and C.
C10_Witness ==
    /\ called = "slow_level"
    /\ result.status = "ok"
    /\ tables.NOMINAL_FREQUENCIES[21] = 10000
    /\ tables.WEIGHTING_A[21] = 0
    /\ tables.WEIGHTING_C[21] = 0

====
